---- MODULE Spec2Model ----
(***************************************************************************)
(* Image Collection Editor of the e-commerce storefront: the product       *)
(* creation page script and the product edit page script                   *)
(* (static/js/edit-product.js).  Both keep an ordered array uploadedFiles,  *)
(* a preview grid rendered from it and a hidden form field "images".       *)
(*                                                                         *)
(* Strings are sequences of tokens.  The delimiter "," and the path        *)
(* separator "/" are tokens of their own; every other token stands for a   *)
(* run of characters that contains neither.  A string begins with the      *)
(* characters d,a,t,a,: exactly if its first token is "data:", and with    *)
(* the MIME prefix image/ exactly if its first token is "image/".          *)
(* Array indices are the 0-based indices of the JavaScript code; TLA+      *)
(* sequences are 1-based, so uploadedFiles[k] of the code is               *)
(* uploadedFiles[k + 1] here.                                              *)
(*                                                                         *)
(* Two more page scripts are modelled, each under a specification of its   *)
(* own: the custom select dropdowns of the registration page               *)
(* (static/js/register-user.js) and the search suggestions of the product  *)
(* list (static/js/products.js).                                           *)
(***************************************************************************)
EXTENDS Integers, Sequences, FiniteSets, TLC

VARIABLES
    flow,            \* which page script runs: "create" or "edit"
    pc,              \* "loading" until the DOMContentLoaded body has run, then "ready"
    hidden,          \* imagesHiddenInput.value
    uploadedFiles,   \* let uploadedFiles = []
    grid,            \* children of imagePreviewGrid, with the handlers bound to them
    readers,         \* the FileReader objects created by handleFiles
    now,             \* Date.now()
    initialValue,    \* history: imagesHiddenInput.value as the server rendered it
    passed,          \* history: the files handed to handleFiles so far, in order
    appended,        \* history: number of entries pushed by reader.onload
    issued,          \* history: the ids given to entries so far, in order
    last,            \* history: the handler that ran last, with its arguments
    trace,           \* history: the handlers run so far (up to TraceCap of them)
    allSelects,      \* the .select-container elements: class list, trigger text, hidden input
    searchValue,     \* searchInput.value
    debounceTimer,   \* let debounceTimer: the handle of the timer set last
    timers,          \* the timers set and neither fired nor cleared
    timerCount,      \* handles returned by setTimeout so far
    requests,        \* the fetches in flight
    suggestions,     \* children of suggestionsContainer, with their click handlers
    display,         \* suggestionsContainer.style.display
    submitted        \* the value the search form was submitted with

\* the state of the image editor apart from last
editorState == <<flow, pc, hidden, uploadedFiles, grid, readers, now,
                 initialValue, passed, appended, issued, trace>>
selectVars == <<allSelects>>
searchVars == <<searchValue, debounceTimer, timers, timerCount, requests,
                suggestions, display, submitted>>
\* the state of the pages that the image editor scripts do not run on
otherPages == <<selectVars, searchVars>>

vars == <<editorState, last, selectVars, searchVars>>

----------------------------------------------------------------------------
(* Bounds *)

MaxLen == 3          \* tokens in the server-rendered hidden field
MaxFiles == 2        \* files handed to handleFiles over a run of the create page
MaxEditFiles == 1    \* files handed to handleFiles over a run of the edit page
MaxBatch == 2        \* files in one FileList
MaxEntries == 3      \* entries and reads in flight that a FileList can add up to
MaxNow == 1          \* milliseconds the clock can advance
RandomSteps == 2     \* distinct values Math.random() can return
TraceCap == 3        \* handlers recorded in trace

Delimiter == ","
Slash == "/"
DataPrefix == <<"data:">>
ImagePrefix == <<"image/">>
UploadDir == <<"/static/img/uploads/">>

\* Tokens the server-rendered hidden field is made of.
ValueTokens == {"img1.jpg", "img2.jpg", Delimiter, "data:"}

\* The files the user can pick or drop: (name, content type).
PickableFiles ==
    { [name |-> <<"a.png">>, type |-> <<"image/", "png">>],
      [name |-> <<"b.png">>, type |-> <<"image/", "png">>],
      [name |-> <<"c", ",", "d.png">>, type |-> <<"image/", "png">>],
      [name |-> <<"notes.txt">>, type |-> <<"text/", "plain">>] }

\* The files picked on the edit page, whose handleFiles is the code of the
\* create page.
EditFiles ==
    { [name |-> <<"a.png">>, type |-> <<"image/", "png">>] }

\* Values Math.random() can return; Spec keeps the clock and Math.random()
\* fixed (the id they make is written and never read), SpecIds lets both vary.
RandomValues == 0..(RandomSteps - 1)
FixedRandom == {0}

StringsUpTo(tokens, n) == UNION { [1..m -> tokens] : m \in 0..n }

\* The values the server can render into the hidden field: in such a value a
\* token other than the delimiter is a whole delimiter-free run, so two of
\* them never stand side by side.
InitialValues ==
    { v \in StringsUpTo(ValueTokens, MaxLen) :
        \A i \in 1..(Len(v) - 1) : v[i] = Delimiter \/ v[i + 1] = Delimiter }

Min(a, b) == IF a <= b THEN a ELSE b

----------------------------------------------------------------------------
(* JavaScript string and array primitives *)

\* String.prototype.startsWith
StartsWith(s, prefix) ==
    /\ Len(s) >= Len(prefix)
    /\ SubSeq(s, 1, Len(prefix)) = prefix

\* String.prototype.split(sep): always at least one piece, "" gives [""]
RECURSIVE Split(_, _)
Split(s, sep) ==
    IF \A i \in 1..Len(s) : s[i] # sep
    THEN << s >>
    ELSE LET i == CHOOSE j \in 1..Len(s) :
                      /\ s[j] = sep
                      /\ \A h \in 1..(j - 1) : s[h] # sep
         IN  << SubSeq(s, 1, i - 1) >> \o Split(SubSeq(s, i + 1, Len(s)), sep)

\* Array.prototype.join(sep): [] gives ""
RECURSIVE Join(_, _)
Join(list, sep) ==
    IF list = << >> THEN << >>
    ELSE IF Len(list) = 1 THEN list[1]
    ELSE list[1] \o << sep >> \o Join(Tail(list), sep)

\* Array.prototype.pop() of a non-empty array: its last element
Pop(list) == list[Len(list)]

\* Array.prototype.splice(start, deleteCount), start >= 0: the removed
\* elements and the array that is left
SpliceRemoved(arr, start, deleteCount) ==
    SubSeq(arr, start + 1, Min(start + deleteCount, Len(arr)))

SpliceRest(arr, start, deleteCount) ==
    SubSeq(arr, 1, Min(start, Len(arr))) \o
    SubSeq(arr, start + deleteCount + 1, Len(arr))

\* const [x] = array
Undefined == [undefined |-> TRUE]
FirstOf(arr) == IF arr = << >> THEN Undefined ELSE arr[1]

\* Array.prototype.unshift
Unshift(arr, x) == << x >> \o arr

\* Array.prototype.map(file => file.url)
Urls(arr) == [i \in 1..Len(arr) |-> arr[i].url]

\* Date.now() + Math.random(), r the value Math.random() returned
NewId(r) == now * RandomSteps + r

\* FileReader.readAsDataURL result: data:<type>;base64,<payload>
ReadAsDataURL(file) == DataPrefix \o file.type \o << ";base64", Delimiter, "payload" >>

----------------------------------------------------------------------------
(* The editor's functions *)

\* a loadInitialImages that splits the empty value too
ExistingImageUrlsUnguarded(value) == Split(value, Delimiter)

\* loadInitialImages, line 13: the locators in the hidden field
ExistingImageUrls(value) ==
    IF value # << >> THEN Split(value, Delimiter) ELSE << >>

\* loadInitialImages, lines 14-18: one entry per locator; rs[i] is the value
\* Math.random() returned for the i-th entry
LoadedEntries(value, rs) ==
    LET urls == ExistingImageUrls(value)
    IN  [i \in 1..Len(urls) |->
            [id |-> NewId(rs[i]), url |-> urls[i], name |-> Pop(Split(urls[i], Slash))]]

\* a handleFiles that decodes every file
IsImageAny(file) == Len(file.type) >= 0

\* file.type.startsWith('image/')
IsImage(file) == StartsWith(file.type, ImagePrefix)

\* reader.onload: the entry built from a decoded file
FileData(file, r) ==
    IF flow = "edit"
    THEN [id |-> NewId(r), url |-> ReadAsDataURL(file), name |-> file.name,
          isNewUpload |-> TRUE]
    ELSE [id |-> NewId(r), url |-> ReadAsDataURL(file), name |-> file.name]

NoHandler == -1

\* a renderPreviews that draws the "Make Main" button on every card
CardAlwaysMakeMain(fileData, index) ==
    [ src      |-> fileData.url,
      classes  |-> IF index = 0 THEN {"preview-card", "main-image"}
                                ELSE {"preview-card"},
      makeMain |-> index,
      badge    |-> IF index # 0 THEN FALSE ELSE TRUE,
      remove   |-> index ]

\* renderPreviews: the card drawn for uploadedFiles[index]
Card(fileData, index) ==
    [ src      |-> fileData.url,
      classes  |-> IF index = 0 THEN {"preview-card", "main-image"}
                                ELSE {"preview-card"},
      makeMain |-> IF index # 0 THEN index ELSE NoHandler,
      badge    |-> IF index # 0 THEN FALSE ELSE TRUE,
      remove   |-> index ]

\* a renderPreviews whose handlers share one index variable, left at the
\* length of the list when the loop ends
RenderPreviewsSharedIndex(files) ==
    [i \in 1..Len(files) |-> [Card(files[i], i - 1) EXCEPT !.remove = Len(files)]]

\* renderPreviews: innerHTML = '' and one card per entry, in order
RenderPreviews(files) == [i \in 1..Len(files) |-> Card(files[i], i - 1)]

\* a push that puts the new entry in front
PushFront(files, fileData) == << fileData >> \o files

\* uploadedFiles.push(fileData)
Push(files, fileData) == Append(files, fileData)

\* a setAsMain that exchanges the entry with the main one
SetAsMainSwap(files, index) ==
    [i \in 1..Len(files) |->
        IF i = 1 THEN files[index + 1]
        ELSE IF i = index + 1 THEN files[1] ELSE files[i]]

\* setAsMain: splice(index, 1) then unshift
SetAsMain(files, index) ==
    Unshift(SpliceRest(files, index, 1), FirstOf(SpliceRemoved(files, index, 1)))

\* a removeImage whose splice lacks the delete count
RemoveImageToEnd(files, index) == SpliceRest(files, index, Len(files))

\* removeImage: splice(index, 1)
RemoveImage(files, index) == SpliceRest(files, index, 1)

\* edit page submit handler, lines 122-127
IsExistingUrl(file) == ~ StartsWith(file.url, DataPrefix)
SerializeEdit(files) == Join(Urls(SelectSeq(files, IsExistingUrl)), Delimiter)

\* create page submit handler, lines 111-112
Placeholder(file) == UploadDir \o file.name
SerializeCreate(files) ==
    Join([i \in 1..Len(files) |-> Placeholder(files[i])], Delimiter)

----------------------------------------------------------------------------
(* History bookkeeping *)

TooLong == << [op |-> "more", index |-> -1] >>
Record(t, op, index) ==
    IF t = TooLong \/ Len(t) >= TraceCap THEN TooLong
    ELSE Append(t, [op |-> op, index |-> index])

Ran(op, index, files) ==
    /\ last' = [op |-> op, index |-> index, before |-> uploadedFiles, files |-> files]
    /\ trace' = Record(trace, op, index)

----------------------------------------------------------------------------
(* Initial state and events *)

NotSubmitted == "not submitted"

\* a page without select containers: querySelectorAll finds none
NoSelects == allSelects = << >>

\* a page without the sidebar search
NoSearch ==
    /\ searchValue = << >>
    /\ debounceTimer = 0
    /\ timers = {}
    /\ timerCount = 0
    /\ requests = {}
    /\ suggestions = << >>
    /\ display = ""
    /\ submitted = NotSubmitted

NoHistory == [op |-> "none", index |-> -1, before |-> << >>, files |-> << >>]

\* a page without the image editor
NoEditor ==
    /\ flow = "none"
    /\ pc = "none"
    /\ hidden = << >>
    /\ initialValue = << >>
    /\ uploadedFiles = << >>
    /\ grid = << >>
    /\ readers = << >>
    /\ now = 0
    /\ passed = << >>
    /\ appended = 0
    /\ issued = << >>
    /\ trace = << >>

Init ==
    /\ NoSelects
    /\ NoSearch
    /\ flow \in {"create", "edit"}
    /\ pc = IF flow = "edit" THEN "loading" ELSE "ready"
    /\ hidden \in IF flow = "edit" THEN InitialValues ELSE {<< >>}
    /\ initialValue = hidden
    /\ uploadedFiles = << >>
    /\ grid = << >>
    /\ readers = << >>
    /\ now = 0
    /\ passed = << >>
    /\ appended = 0
    /\ issued = << >>
    /\ last = [op |-> "none", index |-> -1, before |-> << >>, files |-> << >>]
    /\ trace = << >>

\* a loadInitialImages that the edit page can run again at any time
LoadInitialImagesAgain(R) ==
    /\ flow = "edit"
    /\ \E rs \in [1..Len(ExistingImageUrls(hidden)) -> R] :
          /\ uploadedFiles' = LoadedEntries(hidden, rs)
          /\ issued' = [i \in DOMAIN rs |-> NewId(rs[i])]
    /\ grid' = RenderPreviews(uploadedFiles')
    /\ pc' = "ready"
    /\ Ran("loadInitialImages", -1, << >>)
    /\ UNCHANGED <<otherPages, flow, hidden, readers, now, initialValue, passed, appended>>

\* edit-product.js line 136: the call that ends the DOMContentLoaded body
LoadInitialImages(R) ==
    /\ pc = "loading"
    /\ \E rs \in [1..Len(ExistingImageUrls(hidden)) -> R] :
          /\ uploadedFiles' = LoadedEntries(hidden, rs)
          /\ issued' = [i \in DOMAIN rs |-> NewId(rs[i])]
    /\ grid' = RenderPreviews(uploadedFiles')
    /\ pc' = "ready"
    /\ Ran("loadInitialImages", -1, << >>)
    /\ UNCHANGED <<otherPages, flow, hidden, readers, now, initialValue, passed, appended>>

\* number of reads in flight
InFlight == Cardinality({i \in 1..Len(readers) : readers[i].readyState = "LOADING"})

\* drop and change listeners: handleFiles(files)
HandleFiles ==
    /\ pc = "ready"
    /\ \E n \in 1..MaxBatch :
       \E files \in [1..n -> IF flow = "edit" THEN EditFiles ELSE PickableFiles] :
          /\ Len(passed) + n <= (IF flow = "edit" THEN MaxEditFiles ELSE MaxFiles)
          /\ LET accepted == SelectSeq(files, IsImage)
             IN  /\ Len(uploadedFiles) + InFlight + Len(accepted) <= MaxEntries
                 /\ readers' = readers \o
                     [i \in 1..Len(accepted) |->
                         [file |-> accepted[i], readyState |-> "LOADING", error |-> FALSE]]
          /\ passed' = passed \o files
          /\ Ran("handleFiles", -1, files)
    /\ UNCHANGED <<otherPages, flow, pc, hidden, uploadedFiles, grid, now, initialValue, appended,
                   issued>>

\* reader.onload of the i-th reader
ReaderOnload(R) ==
    /\ pc = "ready"
    /\ \E i \in 1..Len(readers) : \E r \in R :
          /\ readers[i].readyState = "LOADING"
          /\ readers' = [readers EXCEPT ![i].readyState = "DONE"]
          /\ uploadedFiles' = Push(uploadedFiles, FileData(readers[i].file, r))
          /\ issued' = Append(issued, NewId(r))
          /\ Ran("onload", i - 1, << readers[i].file >>)
    /\ grid' = RenderPreviews(uploadedFiles')
    /\ appended' = appended + 1
    /\ UNCHANGED <<otherPages, flow, pc, hidden, now, initialValue, passed>>

\* a reader whose failure runs the completion handler with no result
ReaderErrorPushes ==
    /\ pc = "ready"
    /\ \E i \in 1..Len(readers) :
          /\ readers[i].readyState = "LOADING"
          /\ readers' = [readers EXCEPT ![i].readyState = "DONE", ![i].error = TRUE]
          /\ uploadedFiles' =
                Push(uploadedFiles, [FileData(readers[i].file, 0) EXCEPT !.url = << >>])
          /\ Ran("onerror", i - 1, << readers[i].file >>)
    /\ grid' = RenderPreviews(uploadedFiles')
    /\ UNCHANGED <<otherPages, flow, pc, hidden, now, initialValue, passed, appended, issued>>

\* the read of the i-th reader fails: an error event, for which no handler
\* is registered
ReaderError ==
    /\ pc = "ready"
    /\ \E i \in 1..Len(readers) :
          /\ readers[i].readyState = "LOADING"
          /\ readers' = [readers EXCEPT ![i].readyState = "DONE", ![i].error = TRUE]
          /\ Ran("onerror", i - 1, << readers[i].file >>)
    /\ UNCHANGED <<otherPages, flow, pc, hidden, uploadedFiles, grid, now, initialValue,
                   passed, appended, issued>>

\* click on the "Make Main" button of a rendered card
ClickMakeMain ==
    /\ pc = "ready"
    /\ \E c \in 1..Len(grid) :
          /\ grid[c].makeMain # NoHandler
          /\ uploadedFiles' = SetAsMain(uploadedFiles, grid[c].makeMain)
          /\ Ran("setAsMain", grid[c].makeMain, << >>)
    /\ grid' = RenderPreviews(uploadedFiles')
    /\ UNCHANGED <<otherPages, flow, pc, hidden, readers, now, initialValue, passed, appended,
                   issued>>

\* click on the "Remove" button of a rendered card
ClickRemove ==
    /\ pc = "ready"
    /\ \E c \in 1..Len(grid) :
          /\ uploadedFiles' = RemoveImage(uploadedFiles, grid[c].remove)
          /\ Ran("removeImage", grid[c].remove, << >>)
    /\ grid' = RenderPreviews(uploadedFiles')
    /\ UNCHANGED <<otherPages, flow, pc, hidden, readers, now, initialValue, passed, appended,
                   issued>>

\* a submit handler that runs only when no read is in flight
SubmitWhenIdle ==
    /\ pc = "ready"
    /\ \A i \in 1..Len(readers) : readers[i].readyState # "LOADING"
    /\ hidden' = IF flow = "edit" THEN SerializeEdit(uploadedFiles)
                                  ELSE SerializeCreate(uploadedFiles)
    /\ Ran("submit", -1, << >>)
    /\ UNCHANGED <<otherPages, flow, pc, uploadedFiles, grid, readers, now, initialValue,
                   passed, appended, issued>>

\* productForm submit listener
Submit ==
    /\ pc = "ready"
    /\ hidden' = IF flow = "edit" THEN SerializeEdit(uploadedFiles)
                                  ELSE SerializeCreate(uploadedFiles)
    /\ Ran("submit", -1, << >>)
    /\ UNCHANGED <<otherPages, flow, pc, uploadedFiles, grid, readers, now, initialValue,
                   passed, appended, issued>>

\* a millisecond passes between two handlers
Tick ==
    /\ now < MaxNow
    /\ now' = now + 1
    /\ UNCHANGED <<otherPages, flow, pc, hidden, uploadedFiles, grid, readers,
                   initialValue, passed, appended, issued, last, trace>>

Next ==
    \/ LoadInitialImages(FixedRandom)
    \/ HandleFiles
    \/ ReaderOnload(FixedRandom)
    \/ ReaderError
    \/ ClickMakeMain
    \/ ClickRemove
    \/ Submit

Spec == Init /\ [][Next]_vars

\* The same pages with the clock running and Math.random() free, started
\* from hidden fields that hold plain, non-empty locators.
InitIds ==
    /\ Init
    /\ \A i \in 1..Len(hidden) : hidden[i] \in {"img1.jpg", "img2.jpg", Delimiter}
    /\ \A i \in 1..Len(ExistingImageUrls(hidden)) : ExistingImageUrls(hidden)[i] # << >>

NextIds ==
    \/ LoadInitialImages(RandomValues)
    \/ HandleFiles
    \/ ReaderOnload(RandomValues)
    \/ ReaderError
    \/ ClickMakeMain
    \/ ClickRemove
    \/ Submit
    \/ Tick

SpecIds == InitIds /\ [][NextIds]_vars

TypeOK ==
    /\ flow \in {"create", "edit", "none"}
    /\ pc \in {"loading", "ready", "none"}
    /\ now \in 0..MaxNow
    /\ appended \in 0..MaxFiles
    /\ Len(passed) <= MaxFiles

----------------------------------------------------------------------------
(* Custom select dropdowns: static/js/register-user.js *)

NumSelects == 3      \* .select-container elements on the page

Containers == 1..NumSelects

\* the li elements of a .select-options list
Options == { [textContent |-> "Male", value |-> "male"],
             [textContent |-> "Female", value |-> "female"] }

\* closeAllSelects() is called with no argument: exceptThisOne = null
Null == 0

\* a closeAllSelects that closes nothing
CloseNoSelects(selects, exceptThisOne) == selects

\* closeAllSelects(exceptThisOne)
CloseAllSelects(selects, exceptThisOne) ==
    [s \in DOMAIN selects |->
        IF s # exceptThisOne THEN [selects[s] EXCEPT !.active = FALSE]
                             ELSE selects[s]]

\* classList.toggle('active')
ToggleActive(selects, s) == [selects EXCEPT ![s].active = ~ selects[s].active]

\* the click listener of an option of container s
ChooseOption(selects, s, option) ==
    [selects EXCEPT ![s] = [ active      |-> FALSE,
                             hasValue    |-> TRUE,
                             triggerText |-> option.textContent,
                             hiddenInput |-> option.value ]]

SelectRan(op, s) ==
    last' = [op |-> op, index |-> s, before |-> << >>, files |-> << >>]

\* the registration page as the server renders it: no container is active
InitSelects ==
    /\ NoEditor
    /\ NoSearch
    /\ last = NoHistory
    /\ allSelects = [s \in Containers |->
                        [ active      |-> FALSE,
                          hasValue    |-> FALSE,
                          triggerText |-> "Select",
                          hiddenInput |-> "" ]]

\* click on the trigger of container s; the event does not reach document
TriggerClick ==
    \E s \in Containers :
        /\ allSelects' = ToggleActive(CloseAllSelects(allSelects, s), s)
        /\ SelectRan("trigger", s)
        /\ UNCHANGED <<editorState, searchVars>>

\* click on an option of container s: the option listener runs, then the
\* event bubbles to the document listener
OptionClick ==
    \E s \in Containers : \E option \in Options :
        /\ allSelects' = CloseAllSelects(ChooseOption(allSelects, s, option), Null)
        /\ SelectRan("option", s)
        /\ UNCHANGED <<editorState, searchVars>>

\* click anywhere else: the document listener
DocumentClick ==
    /\ allSelects' = CloseAllSelects(allSelects, Null)
    /\ SelectRan("document", -1)
    /\ UNCHANGED <<editorState, searchVars>>

NextSelects ==
    \/ TriggerClick
    \/ OptionClick
    \/ DocumentClick

SpecSelects == InitSelects /\ [][NextSelects]_vars

----------------------------------------------------------------------------
(* Sidebar search suggestions: static/js/products.js, lines 16-67 *)

MaxInputs == 3       \* input events over a run

\* the values typed into the search input; a string is the sequence of its
\* UTF-16 code units, as length counts them
Queries == { << >>, <<"a">>, <<"a", "b">>, <<"a", " ">>, <<"a", " ", "b">> }

\* the lists the suggestions endpoint can answer with
Responses == { << >>,
               << <<"a", "b">> >>,
               << <<"a", "b">>, <<"a", " ", "b">> >> }

\* the debounce delay of the setTimeout call, in milliseconds
DebounceDelay == 250

\* the shortest query a request is made for
MinQueryLength == 2

\* encodeURIComponent: letters stay, a space becomes %20
EncodeURIComponent(str) ==
    [i \in 1..Len(str) |-> IF str[i] = " " THEN "%20" ELSE str[i]]

SuggestionsUrl(query) == <<"/api/search-suggestions?query=">> \o EncodeURIComponent(query)

\* a clearTimeout that clears nothing
ClearNoTimeout(pending, handle) == pending

\* clearTimeout(handle): no effect for undefined or for a timer that has fired
ClearTimeout(pending, handle) == {t \in pending : t.id # handle}

\* setTimeout(callback, 250), the callback closing over query
SetTimeout(pending, handle, query) ==
    pending \cup {[id |-> handle, query |-> query, delay |-> DebounceDelay]}

\* the div made for one suggestion, with its click listener
SuggestionItem(suggestion) == [textContent |-> suggestion, onclick |-> suggestion]

SearchRan(op, index) ==
    last' = [op |-> op, index |-> index, before |-> << >>, files |-> << >>]

\* the product list page as the server renders it
InitSearch ==
    /\ NoEditor
    /\ NoSelects
    /\ last = NoHistory
    /\ searchValue = << >>
    /\ debounceTimer = 0
    /\ timers = {}
    /\ timerCount = 0
    /\ requests = {}
    /\ suggestions = << >>
    /\ display = ""
    /\ submitted = NotSubmitted

\* input event of searchInput: the user has changed the value to query
SearchInput ==
    /\ submitted = NotSubmitted
    /\ timerCount < MaxInputs
    /\ \E query \in Queries :
          /\ searchValue' = query
          /\ timers' = SetTimeout(ClearTimeout(timers, debounceTimer), timerCount + 1, query)
    /\ debounceTimer' = timerCount + 1
    /\ timerCount' = timerCount + 1
    /\ SearchRan("input", timerCount + 1)
    /\ UNCHANGED <<editorState, selectVars, requests, suggestions, display, submitted>>

\* a pending timer fires: the callback of setTimeout
TimerFires ==
    /\ submitted = NotSubmitted
    /\ \E t \in timers :
          /\ timers' = timers \ {t}
          /\ IF Len(t.query) < MinQueryLength
             THEN /\ suggestions' = << >>
                  /\ display' = "none"
                  /\ UNCHANGED requests
             ELSE /\ requests' = requests \cup {[id |-> t.id, url |-> SuggestionsUrl(t.query)]}
                  /\ UNCHANGED <<suggestions, display>>
          /\ SearchRan("timer", t.id)
    /\ UNCHANGED <<editorState, selectVars, searchValue, debounceTimer, timerCount, submitted>>

\* the response of a fetch arrives: .then(data => ...)
ResponseArrives ==
    /\ submitted = NotSubmitted
    /\ \E r \in requests : \E data \in Responses :
          /\ requests' = requests \ {r}
          /\ suggestions' = [i \in 1..Len(data) |-> SuggestionItem(data[i])]
          /\ display' = IF Len(data) > 0 THEN "block" ELSE "none"
          /\ SearchRan("response", r.id)
    /\ UNCHANGED <<editorState, selectVars, searchValue, debounceTimer, timers, timerCount,
                   submitted>>

\* a fetch fails: .catch(error => ...)
FetchFails ==
    /\ submitted = NotSubmitted
    /\ \E r \in requests :
          /\ requests' = requests \ {r}
          /\ SearchRan("catch", r.id)
    /\ display' = "none"
    /\ UNCHANGED <<editorState, selectVars, searchValue, debounceTimer, timers, timerCount,
                   suggestions, submitted>>

\* click on the i-th suggestion shown: the value is set and the form submitted
SuggestionClick ==
    /\ submitted = NotSubmitted
    /\ display = "block"
    /\ \E i \in 1..Len(suggestions) :
          /\ searchValue' = suggestions[i].onclick
          /\ submitted' = searchValue'
          /\ SearchRan("suggestion", i)
    /\ UNCHANGED <<editorState, selectVars, debounceTimer, timers, timerCount, requests,
                   suggestions, display>>

\* click outside searchContainer: the document listener
ClickOutsideSearch ==
    /\ submitted = NotSubmitted
    /\ display' = "none"
    /\ SearchRan("outside", -1)
    /\ UNCHANGED <<editorState, selectVars, searchValue, debounceTimer, timers, timerCount,
                   requests, suggestions, submitted>>

NextSearch ==
    \/ SearchInput
    \/ TimerFires
    \/ ResponseArrives
    \/ FetchFails
    \/ SuggestionClick
    \/ ClickOutsideSearch

SpecSearch == InitSearch /\ [][NextSearch]_vars

----------------------------------------------------------------------------
(* Properties *)

\* An entry made by loadInitialImages (Remote) carries no isNewUpload mark;
\* an entry made by reader.onload of the edit page (LocalPending) does.
IsRemote(file) == "isNewUpload" \notin DOMAIN file
RemoteEntries(files) == SelectSeq(files, IsRemote)

CommaCount(s) == Cardinality({i \in 1..Len(s) : s[i] = Delimiter})

\* list with the element at 0-based position k moved to the front
MovedToFront(list, k) ==
    [i \in 1..Len(list) |->
        IF i = 1 THEN list[k + 1] ELSE IF i <= k + 1 THEN list[i - 1] ELSE list[i]]

\* C1: setAsMain(k), called with a valid index k on N entries, leaves N
\* entries: the entry formerly at k is at position 0, the entries formerly
\* before k have each moved one position up and those after k have stayed, so
\* that no entry is added, lost or duplicated.
SetAsMainMovesToFront ==
    last.op = "setAsMain" =>
        LET k == last.index
            b == last.before
        IN  /\ k \in 0..(Len(b) - 1)
            /\ Len(uploadedFiles) = Len(b)
            /\ uploadedFiles[1] = b[k + 1]
            /\ \A i \in 1..k : uploadedFiles[i + 1] = b[i]
            /\ \A i \in (k + 2)..Len(b) : uploadedFiles[i] = b[i]

SetAsMainWitness ==
    /\ last.op = "setAsMain"
    /\ last.index = 2
    /\ Len(last.before) = 3
    /\ last.before[1].url # last.before[2].url
    /\ last.before[1].url # last.before[3].url
    /\ last.before[2].url # last.before[3].url

\* C2: removeImage(k), called with a valid index k on N entries, leaves
\* exactly N - 1 entries: the entries formerly before k keep their positions
\* and those after k have each moved one position down; the entry at k is gone.
RemoveImageRemovesOne ==
    last.op = "removeImage" =>
        LET k == last.index
            b == last.before
        IN  /\ k \in 0..(Len(b) - 1)
            /\ Len(uploadedFiles) = Len(b) - 1
            /\ \A i \in 1..k : uploadedFiles[i] = b[i]
            /\ \A i \in (k + 2)..Len(b) : uploadedFiles[i - 1] = b[i]

RemoveImageWitness ==
    /\ last.op = "removeImage"
    /\ last.index = 1
    /\ Len(last.before) = 3
    /\ last.before[1].url # last.before[2].url
    /\ last.before[2].url # last.before[3].url

\* C3: on the edit page the submit handler sets the hidden field to the
\* comma-join of the locators of exactly the Remote entries, in their current
\* order; no LocalPending entry contributes and no Remote entry is omitted.
SubmitWritesRemoteLocators ==
    (flow = "edit" /\ last.op = "submit") =>
        hidden = Join(Urls(RemoteEntries(uploadedFiles)), Delimiter)

\* C4: on the edit page, a fresh loadInitialImages fed the value the submit
\* handler wrote yields exactly the Remote entries' locators, in order.
SubmitThenLoadRoundTrips ==
    (flow = "edit" /\ last.op = "submit") =>
        Urls(LoadedEntries(hidden, [i \in 1..Len(ExistingImageUrls(hidden)) |-> 0]))
            = Urls(RemoteEntries(uploadedFiles))

\* C5: on the edit page, loadInitialImages followed by setAsMain(k) and
\* submit writes the initial locator list with its k-th locator moved to the
\* front ("img1.jpg,img2.jpg" and k = 1 give "img2.jpg,img1.jpg").
IsLoadPromoteSubmit ==
    /\ Len(trace) = 3
    /\ trace[1].op = "loadInitialImages"
    /\ trace[2].op = "setAsMain"
    /\ trace[3].op = "submit"

PromoteThenSubmitMovesLocator ==
    IsLoadPromoteSubmit =>
        hidden = Join(MovedToFront(Split(initialValue, Delimiter), trace[2].index),
                      Delimiter)

\* the scenario of C5 on its literal input
PromoteScenarioImg ==
    (IsLoadPromoteSubmit /\ initialValue = <<"img1.jpg", ",", "img2.jpg">>
        /\ trace[2].index = 1) =>
        hidden = <<"img2.jpg", ",", "img1.jpg">>

\* C6: on the create page the submit handler writes a comma-delimited value
\* with exactly one element per entry, the element being the placeholder
\* locator of that entry's filename, in the order of the entries.
SubmitWritesOnePlaceholderPerEntry ==
    (flow = "create" /\ last.op = "submit") =>
        LET elements == IF hidden = << >> THEN << >> ELSE Split(hidden, Delimiter)
        IN  /\ Len(elements) = Len(uploadedFiles)
            /\ \A i \in 1..Len(uploadedFiles) :
                  elements[i] = UploadDir \o uploadedFiles[i].name

\* the scenario of C6 on its literal input
PlaceholderScenarioAB ==
    (flow = "create" /\ last.op = "submit" /\ Len(uploadedFiles) = 2
        /\ uploadedFiles[1].name = <<"a.png">> /\ uploadedFiles[2].name = <<"b.png">>) =>
        hidden = <<"/static/img/uploads/", "a.png", ",", "/static/img/uploads/", "b.png">>

\* C7: every image-typed file handed to handleFiles gets exactly one decode
\* and every other file none; each completed decode appends exactly one
\* entry, a LocalPending one for that file, and handleFiles itself changes
\* neither the entries nor the preview; so once every decode has completed
\* the number of entries appended is the number of image-typed files.
ImagesPassed ==
    LET isImageTyped(f) == f.type # << >> /\ f.type[1] = "image/"
    IN  SelectSeq(passed, isImageTyped)

Completed(i) == readers[i].readyState = "DONE" /\ ~ readers[i].error

IngestAppendsOnePerImage ==
    /\ Len(readers) = Len(ImagesPassed)
    /\ \A i \in 1..Len(readers) : readers[i].file = ImagesPassed[i]
    /\ appended = Cardinality({i \in 1..Len(readers) : Completed(i)})
    /\ (\A i \in 1..Len(readers) : Completed(i)) => appended = Len(ImagesPassed)
    /\ last.op = "handleFiles" => uploadedFiles = last.before
    /\ last.op = "onload" =>
          /\ Len(uploadedFiles) = Len(last.before) + 1
          /\ SubSeq(uploadedFiles, 1, Len(last.before)) = last.before
          /\ uploadedFiles[Len(uploadedFiles)].name = last.files[1].name
          /\ uploadedFiles[Len(uploadedFiles)].url[1] = "data:"

IngestWitness ==
    /\ Len(passed) = 2
    /\ Len(ImagesPassed) = 1
    /\ \A i \in 1..Len(readers) : Completed(i)
    /\ appended = 1
    /\ last.op = "onload"

\* C8: loadInitialImages on the empty value yields no entry; on a value with
\* n - 1 delimiters it yields exactly n Remote entries whose locators hold no
\* delimiter and, joined by the delimiter in order, are the value.
LoadSplitsValue ==
    last.op = "loadInitialImages" =>
        /\ initialValue = << >> => uploadedFiles = << >>
        /\ initialValue # << >> =>
              /\ Len(uploadedFiles) = CommaCount(initialValue) + 1
              /\ Join(Urls(uploadedFiles), Delimiter) = initialValue
        /\ \A i \in 1..Len(uploadedFiles) :
              /\ IsRemote(uploadedFiles[i])
              /\ CommaCount(uploadedFiles[i].url) = 0

LoadWitness ==
    /\ last.op = "loadInitialImages"
    /\ initialValue = <<"img1.jpg", ",", "img2.jpg">>
    /\ Len(uploadedFiles) = 2
    /\ uploadedFiles[1].url = <<"img1.jpg">>
    /\ uploadedFiles[2].url = <<"img2.jpg">>

LoadEmptyWitness ==
    /\ last.op = "loadInitialImages"
    /\ initialValue = << >>
    /\ uploadedFiles = << >>

\* C9: no two entries have the same id, and an id once given to an entry is
\* never given to a later one.
IdsNeverRepeat ==
    /\ \A i, j \in 1..Len(uploadedFiles) :
          i # j => uploadedFiles[i].id # uploadedFiles[j].id
    /\ \A i, j \in 1..Len(issued) : i # j => issued[i] # issued[j]

\* C10: the preview is a function of the entries: one card per entry in
\* order, showing that entry; the card at index 0 and only it carries the
\* MAIN badge and has no "Make Main" action, every other card's "Make Main"
\* and every card's "Remove" is bound to the card's own index; after
\* removeImage(0) the entry formerly at index 1 is the one drawn as main.
PreviewMatchesEntries ==
    /\ pc = "ready" =>
          /\ Len(grid) = Len(uploadedFiles)
          /\ \A i \in 1..Len(grid) :
                /\ grid[i].src = uploadedFiles[i].url
                /\ grid[i].badge <=> (i = 1)
                /\ ("main-image" \in grid[i].classes) <=> (i = 1)
                /\ (grid[i].makeMain = NoHandler) <=> (i = 1)
                /\ i # 1 => grid[i].makeMain = i - 1
                /\ grid[i].remove = i - 1
    /\ (last.op = "removeImage" /\ last.index = 0 /\ Len(last.before) >= 2) =>
          /\ grid[1].src = last.before[2].url
          /\ grid[1].badge

PreviewWitness ==
    /\ last.op = "removeImage"
    /\ last.index = 0
    /\ Len(last.before) = 3
    /\ last.before[1].url # last.before[2].url
    /\ grid[1].badge
    /\ grid[2].makeMain = 1

\* the value holds an empty piece: it begins or ends with the delimiter, or
\* two delimiters stand side by side
HasEmptyPiece(v) ==
    /\ v # << >>
    /\ \/ v[1] = Delimiter
       \/ v[Len(v)] = Delimiter
       \/ \E i \in 1..(Len(v) - 1) : v[i] = Delimiter /\ v[i + 1] = Delimiter

\* C11: loadInitialImages on the empty value, on a value made only of
\* delimiters or on a value that holds an empty piece yields the empty
\* collection.
MalformedValueLoadsNothing ==
    (last.op = "loadInitialImages" /\ (initialValue = << >> \/ HasEmptyPiece(initialValue))) =>
        uploadedFiles = << >>

\* C12: every setAsMain(i) and removeImage(i) a click invokes is the handler
\* of a card of the current preview: i is a valid index of uploadedFiles at
\* that moment and the card shows the entry at i, whatever render, decode
\* completion or mutation came before the click.
ClickedHandlerIsCurrent ==
    [][ last'.op \in {"setAsMain", "removeImage"} =>
          /\ last'.before = uploadedFiles
          /\ last'.index \in 0..(Len(uploadedFiles) - 1)
          /\ \E c \in 1..Len(grid) :
                /\ last'.index =
                      IF last'.op = "setAsMain" THEN grid[c].makeMain ELSE grid[c].remove
                /\ grid[c].src = uploadedFiles[last'.index + 1].url
                /\ c = last'.index + 1 ]_vars

\* the last card, drawn by the render of a decode completion, is removed
ClickAfterOnloadWitness ==
    /\ last.op = "removeImage"
    /\ Len(last.before) >= 2
    /\ last.index = Len(last.before) - 1
    /\ appended >= 1
    /\ StartsWith(last.before[Len(last.before)].url, DataPrefix)

\* the readers that the last handleFiles call started: the newest ones, one
\* per image file of the call
StartedByLast == (Len(readers) - Len(SelectSeq(last.files, IsImage)) + 1)..Len(readers)

\* position in the file list of the file whose entry is uploadedFiles[k]
InputPosition(k) ==
    CHOOSE i \in 1..Len(readers) : readers[i].file.name = uploadedFiles[k].name

\* C13: handleFiles starts the read of every accepted file of the call before
\* any of them completes, and the entries stand in the order in which the
\* reads complete: after one call and some completions the k-th entry is the
\* file whose read completed k-th, so that the entries are in the order of
\* the file list exactly when the reads complete in that order.
EntriesInCompletionOrder ==
    /\ last.op = "handleFiles" =>
          \A i \in StartedByLast : readers[i].readyState = "LOADING"
    /\ (/\ trace # TooLong
        /\ Len(trace) >= 1
        /\ trace[1].op = "handleFiles"
        /\ \A k \in 2..Len(trace) : trace[k].op = "onload") =>
          /\ Len(uploadedFiles) = Len(trace) - 1
          /\ \A k \in 1..Len(uploadedFiles) :
                uploadedFiles[k].name = readers[trace[k + 1].index + 1].file.name
          /\ (\A i, j \in 1..Len(readers) :
                 readers[i].file.name = readers[j].file.name => i = j) =>
                ((\A k, l \in 1..Len(uploadedFiles) :
                     k < l => InputPosition(k) < InputPosition(l))
                 <=> (\A k, l \in 2..Len(trace) :
                         k < l => trace[k].index < trace[l].index))

\* the second file of the list completes first and stands before the first
ReorderedWitness ==
    /\ trace = << [op |-> "handleFiles", index |-> -1],
                  [op |-> "onload", index |-> 1],
                  [op |-> "onload", index |-> 0] >>
    /\ passed = << [name |-> <<"a.png">>, type |-> <<"image/", "png">>],
                   [name |-> <<"b.png">>, type |-> <<"image/", "png">>] >>
    /\ uploadedFiles[1].name = <<"b.png">>
    /\ uploadedFiles[2].name = <<"a.png">>

\* C14: a decode completion appends exactly one entry at the end and redraws
\* the preview: the entries that were there keep their order and positions,
\* so the main image stays the main image unless the collection was empty;
\* setAsMain and removeImage leave every reader as it is, so that no read in
\* flight is cancelled.
OnloadOnlyAppends ==
    [][ /\ last'.op = "onload" =>
              /\ Len(uploadedFiles') = Len(uploadedFiles) + 1
              /\ SubSeq(uploadedFiles', 1, Len(uploadedFiles)) = uploadedFiles
              /\ uploadedFiles'[Len(uploadedFiles')].name = readers[last'.index + 1].file.name
              /\ grid' = RenderPreviews(uploadedFiles')
              /\ SubSeq(grid', 1, Len(grid)) = grid
              /\ hidden' = hidden
        /\ last'.op \in {"removeImage", "setAsMain"} => readers' = readers ]_vars

\* a read completes while a main image is shown and another read is in flight
\* after a removal
OnloadWitness ==
    /\ last.op = "onload"
    /\ Len(last.before) >= 1
    /\ uploadedFiles[1] = last.before[1]
    /\ grid[1].badge
    /\ Len(uploadedFiles) = Len(last.before) + 1

\* an entry is removed while a read is in flight, and the read stays in flight
RemoveKeepsReadersWitness ==
    /\ last.op = "removeImage"
    /\ \E i \in 1..Len(readers) : readers[i].readyState = "LOADING"

TokenCount(s, t) == Cardinality({i \in 1..Len(s) : s[i] = t})

\* C15: the submit handler runs at once whatever reads are in flight and
\* writes a value computed from the entries appended so far: on the create
\* page one placeholder per entry, on the edit page no data: locator; a file
\* whose read has not completed adds nothing to the value.
SubmitDoesNotWait ==
    /\ (\E i \in 1..Len(readers) : readers[i].readyState = "LOADING") => ENABLED Submit
    /\ last.op = "submit" =>
          /\ uploadedFiles = last.before
          /\ flow = "create" =>
                /\ TokenCount(hidden, UploadDir[1]) = Len(uploadedFiles)
                /\ \A i \in 1..Len(readers) :
                      (/\ readers[i].readyState = "LOADING"
                       /\ \A j \in 1..Len(uploadedFiles) :
                             uploadedFiles[j].name # readers[i].file.name) =>
                          \A k \in 1..Len(readers[i].file.name) :
                             readers[i].file.name[k] = Delimiter
                                \/ TokenCount(hidden, readers[i].file.name[k]) = 0
          /\ flow = "edit" =>
                /\ TokenCount(hidden, DataPrefix[1]) = 0
                /\ CommaCount(hidden) <= Len(uploadedFiles)

\* the form is submitted with one entry appended and another read in flight
SubmitInFlightWitness ==
    /\ last.op = "submit"
    /\ flow = "create"
    /\ Len(uploadedFiles) = 1
    /\ \E i \in 1..Len(readers) :
          /\ readers[i].readyState = "LOADING"
          /\ readers[i].file.name # uploadedFiles[1].name
    /\ TokenCount(hidden, UploadDir[1]) = 1

\* C16: on the edit page loadInitialImages runs exactly once, as the first
\* step, before any drop, decode completion, click or submit is handled, and
\* draws the preview once all entries of the hidden field are in the
\* collection; on the create page it never runs and the collection starts
\* empty.
LoadRunsOnceFirst ==
    [][ /\ last'.op = "loadInitialImages" =>
              /\ flow = "edit"
              /\ pc = "loading"
              /\ last.op = "none"
              /\ trace = << >>
              /\ uploadedFiles = << >>
              /\ Len(uploadedFiles') = Len(ExistingImageUrls(initialValue))
              /\ grid' = RenderPreviews(uploadedFiles')
        /\ pc = "loading" => (last'.op = "loadInitialImages" /\ pc' = "ready")
        /\ pc = "ready" => (last'.op # "loadInitialImages" /\ pc' = "ready")
        /\ flow = "create" => (pc = "ready" /\ flow' = "create") ]_vars

\* the edit page has loaded two locators and then handled a submit
LoadOnceWitness ==
    /\ flow = "edit"
    /\ trace = << [op |-> "loadInitialImages", index |-> -1],
                  [op |-> "submit", index |-> -1] >>
    /\ Len(uploadedFiles) = 2
    /\ Len(grid) = 2

Failed(i) == readers[i].readyState = "DONE" /\ readers[i].error

\* an entry pushed by reader.onload: its url is the data: URL of the read
IsDecoded(file) == StartsWith(file.url, DataPrefix) /\ Len(file.url) > 1

\* C17: when the read of an accepted file fails, no entry is appended for
\* it, then or later, the entries and the preview stay as they were, and every
\* other read of the call that is still in flight can complete and append its
\* entry.
FailedReadAppendsNothing ==
    /\ last.op = "onerror" =>
          /\ uploadedFiles = last.before
          /\ grid = RenderPreviews(last.before)
          /\ Failed(last.index + 1)
    /\ (\E i \in 1..Len(readers) : Failed(i)) =>
          /\ appended = Cardinality({i \in 1..Len(readers) : Completed(i)})
          /\ Len(SelectSeq(uploadedFiles, IsDecoded)) <= appended
          /\ appended + Cardinality({i \in 1..Len(readers) : Failed(i)}) <= Len(readers)
    /\ (last.op = "onerror" /\ \E i \in 1..Len(readers) : readers[i].readyState = "LOADING") =>
          ENABLED ReaderOnload(FixedRandom)

\* one read of a call has failed, the other has completed after it
FailedReadWitness ==
    /\ trace = << [op |-> "handleFiles", index |-> -1],
                  [op |-> "onerror", index |-> 0],
                  [op |-> "onload", index |-> 1] >>
    /\ Len(uploadedFiles) = 1
    /\ uploadedFiles[1].name = readers[2].file.name
    /\ Failed(1)

\* the submit handler writes the hidden field and nothing else, and writes
\* the same value when it runs twice in a row
SubmitFrame ==
    last'.op = "submit" =>
        /\ uploadedFiles' = uploadedFiles
        /\ grid' = grid
        /\ readers' = readers
        /\ last.op = "submit" => hidden' = hidden

\* C18, as stated: the submit handler changes only the hidden field, and the
\* length of uploadedFiles changes only by +1 on a decode completion and by
\* -1 on removeImage.
LengthChangesByOnloadOrRemove ==
    [][ /\ SubmitFrame
        /\ Len(uploadedFiles') # Len(uploadedFiles) =>
              \/ last'.op = "onload" /\ Len(uploadedFiles') = Len(uploadedFiles) + 1
              \/ last'.op = "removeImage" /\ Len(uploadedFiles') = Len(uploadedFiles) - 1
      ]_vars

\* C18, amended: the submit handler changes only the hidden field, and the
\* length of uploadedFiles changes only by +1 on a decode completion, by -1 on
\* removeImage and, on the edit page, from 0 to the number of pieces of the
\* hidden field at the initial loadInitialImages.
LengthChangesByOnloadRemoveOrLoad ==
    [][ /\ SubmitFrame
        /\ Len(uploadedFiles') # Len(uploadedFiles) =>
              \/ last'.op = "onload" /\ Len(uploadedFiles') = Len(uploadedFiles) + 1
              \/ last'.op = "removeImage" /\ Len(uploadedFiles') = Len(uploadedFiles) - 1
              \/ /\ last'.op = "loadInitialImages"
                 /\ flow = "edit"
                 /\ Len(uploadedFiles) = 0
                 /\ Len(uploadedFiles') = Len(ExistingImageUrls(initialValue))
      ]_vars

\* the edit page has loaded two locators and the form was submitted twice
SubmitTwiceWitness ==
    /\ trace = << [op |-> "loadInitialImages", index |-> -1],
                  [op |-> "submit", index |-> -1],
                  [op |-> "submit", index |-> -1] >>
    /\ Len(uploadedFiles) = 2
    /\ hidden = SerializeEdit(uploadedFiles)

ActiveSelects == {s \in DOMAIN allSelects : allSelects[s].active}

\* C19: from a page with no active select container, after any clicks on
\* triggers, options and elsewhere at most one container is active; a click
\* on a trigger closes every other container and toggles its own; a click on
\* an option leaves its container closed and a click elsewhere leaves no
\* container active.
AtMostOneSelectActive ==
    [][ /\ Cardinality(ActiveSelects) <= 1
        /\ Cardinality(ActiveSelects') <= 1
        /\ last'.op = "trigger" =>
              \A s \in Containers :
                 allSelects'[s].active =
                    (s = last'.index /\ ~ allSelects[s].active)
        /\ last'.op = "option" => ~ allSelects'[last'.index].active
        /\ last'.op = "document" => ActiveSelects' = {}
      ]_vars

\* a trigger is clicked while another container is open
SelectSwitchWitness ==
    /\ last.op = "trigger"
    /\ ActiveSelects = {2}
    /\ allSelects[1].hasValue
    /\ allSelects[1].hiddenInput = "female"

\* C20: at most one debounce timer is pending, each input event clearing the
\* one before; a request is made only when a timer fires and only for the
\* value of the input event that set the timer; for a value shorter than two
\* code units no request is made and the list is emptied and hidden; a click
\* on a suggestion shown submits the form with that suggestion as the value
\* of the input.
DebouncedSuggestions ==
    [][ /\ Cardinality(timers) <= 1
        /\ Cardinality(timers') <= 1
        /\ last'.op = "input" =>
              timers' = {[id |-> debounceTimer', query |-> searchValue', delay |-> 250]}
        /\ requests' \ requests # {} =>
              /\ last'.op = "timer"
              /\ \E t \in timers :
                    /\ timers' = timers \ {t}
                    /\ Len(t.query) >= 2
                    /\ requests' \ requests =
                          {[id |-> t.id,
                            url |-> <<"/api/search-suggestions?query=">>
                                       \o EncodeURIComponent(t.query)]}
        /\ last'.op = "timer" =>
              \E t \in timers :
                 /\ t.id = last'.index
                 /\ Len(t.query) < 2 =>
                       /\ requests' = requests
                       /\ suggestions' = << >>
                       /\ display' = "none"
        /\ last'.op = "suggestion" =>
              /\ display = "block"
              /\ last'.index \in 1..Len(suggestions)
              /\ searchValue' = suggestions[last'.index].textContent
              /\ submitted' = suggestions[last'.index].textContent
      ]_vars

\* the second suggestion of a response to the latest input is clicked while
\* no timer is pending
SuggestionSubmittedWitness ==
    /\ last.op = "suggestion"
    /\ last.index = 2
    /\ submitted = <<"a", " ", "b">>
    /\ searchValue = <<"a", " ", "b">>
    /\ timerCount = 2
    /\ timers = {}

====
